---- MODULE Spec2Model ----
(***************************************************************************)
(* Model of surreal/learner/base.py: PrefetchBatchQueue (a bounded         *)
(* queue.Queue fed by the handler of a ZmqClientPool) and LearnerCore      *)
(* (one-time _initialize, main_loop = dequeue -> learn -> publish).        *)
(***************************************************************************)
EXTENDS Integers, Sequences, FiniteSets, TLC

\* ---------------------------------------------------------------- bounds
MaxCap == 2          \* largest max_prefetch_batch_queue tried
MaxProducers == 2    \* largest number of fetch worker threads
MaxResp == 2         \* largest number of items one response yields
MaxItems == 3        \* total number of items the sampler delivers
MaxCalls == 2        \* number of _initialize / start_enqueue_thread calls
MaxTime == 6         \* last value of the clock
MaxRebinds == 1      \* times the learner replaces its module mapping
MaxCount == 2        \* largest record count of a timer given as input
MaxTotal == 3        \* largest total duration of a timer given as input
Ring == 2            \* counters of an endless run wrap around at Ring

Eps == 1             \* the 1e-6 of update_tensorplex; durations count in 1e-6 s

None == "None"    \* Python None, for the string-valued fields
NoObject == 0     \* Python None, where object identities 1, 2, ... live
NoItem == 0       \* no item held; the items are numbered 1, 2, ...
Unbound == -1     \* loop variable i before the first iteration
Tracked == 1      \* endless sampler: the one item that is followed
Other == 2        \* endless sampler: any other item
Threads == 1..MaxProducers
Seams == {"learn", "module_dict"}
TagNames == {"learn_time", "fetch_time", "iter_time",
             "compute_bound_percent", "io_bound_percent"}
AllSeams == Seams \cup {"save"}
\* batch_size is only handed to the pool as its request; it is larger than
\* any response, so no response fills a batch
BatchSizes == {MaxResp + 1}

VARIABLES
    max_size,        \* PrefetchBatchQueue: maxsize of self._queue
    batch_size,      \* PrefetchBatchQueue._batch_size
    numProducers,    \* worker threads of the client pool
    implemented,     \* abstract seams the concrete learner overrides
    endless,         \* the sampler never runs out of items
    queue,           \* contents of self._queue, oldest first
    enqueue_thread,  \* PrefetchBatchQueue._enqueue_thread
    clientStarts,    \* number of calls of self._client.start()
    ps_publisher,    \* LearnerCore._ps_publisher (None or object identity)
    created,         \* number of queue / publisher objects constructed
    calls,           \* outcomes of the _initialize / start_enqueue_thread calls
    ppc,             \* per worker thread: "idle" or "put" (inside _enqueue)
    pending,         \* per worker thread: the item passed to _enqueue
    resp,            \* per worker thread: items of the response not yet handled
    delivered,       \* number of items the sampler has sent so far
                     \* (endless sampler: 1 once the followed item is sent)
    stalled,         \* the sampler has stopped answering
    tpc,             \* training thread: idle, fetch, learn, publish, error, done
    enum_count,      \* counter of enumerate() in main_loop
    i,               \* loop variable i of main_loop
    batch,           \* loop variable batch of main_loop
    iterDone,        \* number of completed loop bodies
    mainErr,         \* error that left main_loop
    enqCalls,        \* history: items passed to _enqueue, in call order
    enqDone,         \* history: items whose _enqueue returned, in that order
    deqd,            \* history: items returned by dequeue()
    learned,         \* history: batches passed to learn()
    publishCalls,    \* history: calls of ParameterPublisher.publish
    timer,           \* fetch / learn / iteration TimeRecorder: count and total
    start,           \* entry time of the running with-block of each timer
    durs,            \* history: the durations each timer recorded
    now,             \* the clock: time since main_loop was called
    md_cur,          \* identity of the mapping module_dict() returns now
    ps_module_dict,  \* mapping the ParameterPublisher was constructed with
    tags,            \* the speed/* entries of tag_value_dict
    reported         \* update_tensorplex has run

cfgVars   == <<max_size, batch_size, numProducers, implemented, endless>>
queueVars == <<queue, enqueue_thread, clientStarts>>
coreVars  == <<ps_publisher, created, calls>>
poolVars  == <<ppc, pending, resp, delivered, stalled>>
trainVars == <<tpc, enum_count, i, batch, iterDone, mainErr>>
histVars  == <<enqCalls, enqDone, deqd, learned, publishCalls>>
timeVars  == <<timer, start, durs, now>>
modVars   == <<md_cur, ps_module_dict>>
statVars  == <<tags, reported>>
auxVars   == <<timeVars, modVars, statVars>>
vars == <<cfgVars, queueVars, coreVars, poolVars, trainVars, histVars, auxVars>>

\* --------------------------------------------- histories and counters
\* a run against a sampler of MaxItems items keeps its full histories; an
\* endless run keeps no history and lets its counters wrap
Log(h, x) == IF endless THEN h ELSE Append(h, x)
Count(c) == IF endless THEN (c + 1) % Ring ELSE c + 1

\* ------------------------------------------------------ U.TimeRecorder
Timers == {"fetch", "learn", "iteration"}
Rat(n, d) == [n |-> n, d |-> d]

\* a with-block of timer.time() ends: one more count, its duration added
Record(t, d) == [count |-> t.count + 1, total |-> t.total + d]

\* timer.avg: the running mean total / count, 0 before the first record
Avg(t) == IF t.count = 0 THEN Rat(0, 1) ELSE Rat(t.total, t.count)

\* `with timer.time():` entered at start[name] and left now
Timed_aliased(name) ==
    IF endless
    THEN UNCHANGED <<timer, durs>>
    ELSE /\ timer' = [timer EXCEPT ![IF name = "learn" THEN "iteration" ELSE name] =
                          Record(@, now - start[name])]
         /\ durs' = [durs EXCEPT ![name] = Append(@, now - start[name])]
Timed(name) ==
    IF endless
    THEN UNCHANGED <<timer, durs>>
    ELSE /\ timer' = [timer EXCEPT ![name] = Record(@, now - start[name])]
         /\ durs' = [durs EXCEPT ![name] = Append(@, now - start[name])]

\* ------------------------------------------------------- queue.Queue
\* put(item, block=True): waits while maxsize > 0 and qsize() >= maxsize
Queue_put_ready_unbounded(q, maxsize) == TRUE
Queue_put_ready_offbyone(q, maxsize) == maxsize <= 0 \/ Len(q) <= maxsize
Queue_put_ready_double(q, maxsize) == maxsize <= 0 \/ Len(q) < 2 * maxsize
Queue_put_ready(q, maxsize) == maxsize <= 0 \/ Len(q) < maxsize

Queue_put_padded(q, item) == q \o [k \in 1..batch_size |-> item]
Queue_put(q, item) == Append(q, item)

\* get(block=True): waits while the queue is empty, returns the oldest item
Queue_get_ready(q) == Len(q) > 0

Queue_get_item_lifo(q) == q[Len(q)]
Queue_get_item(q) == Head(q)

Queue_get_rest(q) == Tail(q)

\* PrefetchBatchQueue.__len__
PrefetchBatchQueue_len(q) == Len(q)

\* PrefetchBatchQueue.__init__: empty queue, no enqueue thread, client not started
PrefetchBatchQueue_init_started ==
    [queue |-> <<>>, enqueue_thread |-> "client", clientStarts |-> 1]
PrefetchBatchQueue_init ==
    [queue |-> <<>>, enqueue_thread |-> None, clientStarts |-> 0]

\* main_loop: message = 'batch ' + str(i)
Message_next(n) == <<"batch", n + 1>>
Message(n) == <<"batch", n>>

ConstructedWith(seams, timers, stream) ==
    /\ endless = stream
    /\ max_size \in 1..MaxCap
    /\ batch_size \in BatchSizes
    /\ numProducers \in 1..MaxProducers
    /\ implemented \in SUBSET seams
    /\ queue = PrefetchBatchQueue_init.queue
    /\ enqueue_thread = PrefetchBatchQueue_init.enqueue_thread
    /\ clientStarts = PrefetchBatchQueue_init.clientStarts
    /\ ps_publisher = NoObject
    /\ created = [q |-> 1, publisher |-> 0]
    /\ calls = <<>>
    /\ ppc = [p \in Threads |-> "idle"]
    /\ pending = [p \in Threads |-> NoItem]
    /\ resp = [p \in Threads |-> <<>>]
    /\ delivered = 0
    /\ stalled = FALSE
    /\ tpc = "idle"
    /\ enum_count = 0
    /\ i = Unbound
    /\ batch = NoItem
    /\ iterDone = 0
    /\ mainErr = None
    /\ enqCalls = <<>>
    /\ enqDone = <<>>
    /\ deqd = <<>>
    /\ learned = <<>>
    /\ publishCalls = <<>>
    /\ timer = timers
    /\ start = [n \in Timers |-> 0]
    /\ durs = [n \in Timers |-> <<>>]
    /\ now = 0
    /\ md_cur = 1
    /\ ps_module_dict = NoObject
    /\ tags = [n \in TagNames |-> Rat(0, 1)]
    /\ reported = FALSE

\* U.TimeRecorder(): nothing recorded yet
TimeRecorder_init == [count |-> 0, total |-> 0]

Constructed(seams) ==
    ConstructedWith(seams, [n \in Timers |-> TimeRecorder_init], FALSE)

Init == Constructed(Seams)

\* learn, module_dict, save of LearnerCore: raise NotImplementedError
\* unless the concrete learner overrides them
Raises_never(s) == FALSE
Raises(s) == s \notin implemented

Call(op, result) == [op |-> op, result |-> result]

\* ------------------------------------------- PrefetchBatchQueue / LearnerCore
\* start_enqueue_thread: the guard on _enqueue_thread, then _client.start()
AlreadyRunning_never(t) == FALSE
AlreadyRunning(t) == t # None

StartEnqueueThread ==
    /\ Len(calls) < MaxCalls
    /\ IF AlreadyRunning(enqueue_thread)
       THEN /\ calls' = Append(calls, Call("start_enqueue_thread", "RuntimeError"))
            /\ UNCHANGED queueVars
       ELSE /\ enqueue_thread' = "client"
            /\ clientStarts' = clientStarts + 1
            /\ calls' = Append(calls, Call("start_enqueue_thread", "ok"))
            /\ UNCHANGED queue
    /\ UNCHANGED <<ps_publisher, created>>
    /\ UNCHANGED <<cfgVars, poolVars, trainVars, histVars, auxVars>>

\* ParameterPublisher(port=..., module_dict=self.module_dict()): the publisher
\* is given the mapping module_dict() returns when _initialize runs
BoundMapping == md_cur

\* _initialize: module_dict() is evaluated first, then the publisher is
\* constructed and assigned, then start_enqueue_thread() is called
Initialize ==
    /\ Len(calls) < MaxCalls
    /\ IF Raises("module_dict")
       THEN /\ calls' = Append(calls, Call("_initialize", "NotImplementedError"))
            /\ UNCHANGED <<ps_publisher, created, queueVars, ps_module_dict>>
       ELSE /\ created' = [created EXCEPT !.publisher = @ + 1]
            /\ ps_publisher' = created'.publisher
            /\ ps_module_dict' = BoundMapping
            /\ IF AlreadyRunning(enqueue_thread)
               THEN /\ calls' = Append(calls, Call("_initialize", "RuntimeError"))
                    /\ UNCHANGED queueVars
               ELSE /\ enqueue_thread' = "client"
                    /\ clientStarts' = clientStarts + 1
                    /\ calls' = Append(calls, Call("_initialize", "ok"))
                    /\ UNCHANGED queue
    /\ UNCHANGED <<cfgVars, poolVars, trainVars, histVars>>
    /\ UNCHANGED <<timeVars, statVars, md_cur>>

\* ------------------------------------------------------ fetch client pool
\* a worker thread of the started pool receives a response of k items and
\* calls handler = self._enqueue with the first of them
Responses(k) ==
    IF endless
    THEN {[n \in 1..k |-> IF n = m THEN Tracked ELSE Other] :
              m \in IF delivered = 0 THEN 0..k ELSE {0}}
    ELSE IF delivered + k <= MaxItems
         THEN {[n \in 1..k |-> delivered + n]}
         ELSE {}

Receive(p, k) ==
    /\ clientStarts > 0
    /\ p <= numProducers
    /\ ~stalled
    /\ ppc[p] = "idle"
    /\ \E items \in Responses(k) :
           /\ delivered' = IF ~endless THEN delivered + k
                           ELSE IF \E n \in 1..k : items[n] = Tracked THEN 1
                           ELSE delivered
           /\ pending' = [pending EXCEPT ![p] = Head(items)]
           /\ resp' = [resp EXCEPT ![p] = Tail(items)]
           /\ enqCalls' = Log(enqCalls, Head(items))
    /\ ppc' = [ppc EXCEPT ![p] = "put"]
    /\ UNCHANGED stalled
    /\ UNCHANGED <<enqDone, deqd, learned, publishCalls>>
    /\ UNCHANGED <<cfgVars, queueVars, coreVars, trainVars, auxVars>>

\* the sampler stops answering
Stall ==
    /\ clientStarts > 0
    /\ ~stalled
    /\ stalled' = TRUE
    /\ UNCHANGED <<ppc, pending, resp, delivered>>
    /\ UNCHANGED <<cfgVars, queueVars, coreVars, trainVars, histVars, auxVars>>

\* _enqueue: self._queue.put(item, block=True) gets its slot and returns;
\* the worker thread then calls the handler with the next item of the
\* response, if there is one
EnqueueReturn(p) ==
    /\ ppc[p] = "put"
    /\ Queue_put_ready(queue, max_size)
    /\ queue' = Queue_put(queue, pending[p])
    /\ enqDone' = Log(enqDone, pending[p])
    /\ IF resp[p] = <<>>
       THEN /\ ppc' = [ppc EXCEPT ![p] = "idle"]
            /\ pending' = [pending EXCEPT ![p] = NoItem]
            /\ UNCHANGED <<resp, enqCalls>>
       ELSE /\ pending' = [pending EXCEPT ![p] = Head(resp[p])]
            /\ resp' = [resp EXCEPT ![p] = Tail(resp[p])]
            /\ enqCalls' = Log(enqCalls, Head(resp[p]))
            /\ UNCHANGED ppc
    /\ UNCHANGED <<delivered, stalled>>
    /\ UNCHANGED <<enqueue_thread, clientStarts>>
    /\ UNCHANGED <<deqd, learned, publishCalls>>
    /\ UNCHANGED <<cfgVars, coreVars, trainVars, auxVars>>

\* ------------------------------------------------------- training thread
\* main_loop is called: the for statement asks the generator for the first
\* batch, dequeue() enters `with self.timer.time()`
MainLoopStart ==
    /\ tpc = "idle"
    /\ tpc' = "fetch"
    /\ start' = [start EXCEPT !["fetch"] = now]
    /\ UNCHANGED <<enum_count, i, batch, iterDone, mainErr>>
    /\ UNCHANGED <<cfgVars, queueVars, coreVars, poolVars, histVars>>
    /\ UNCHANGED <<timer, durs, now, modVars, statVars>>

\* enumerate(fetch_iterator()): fetch_batch() -> dequeue() -> _queue.get()
\* enumerate pairs the item with its counter and then increments the counter
EnumIndex_after(c) == c + 1
EnumIndex(c) == c

DequeueTake ==
    /\ tpc = "fetch"
    /\ batch' = Queue_get_item(queue)
    /\ queue' = Queue_get_rest(queue)
    /\ i' = EnumIndex(enum_count)
    /\ enum_count' = Count(enum_count)
    /\ deqd' = Log(deqd, batch')
    /\ tpc' = "learn"
    /\ UNCHANGED <<iterDone, mainErr>>
    /\ UNCHANGED <<enqueue_thread, clientStarts>>
    /\ Timed("fetch")
    /\ start' = [start EXCEPT !["iteration"] = now, !["learn"] = now]
    /\ UNCHANGED <<enqCalls, enqDone, learned, publishCalls>>
    /\ UNCHANGED <<cfgVars, coreVars, poolVars>>
    /\ UNCHANGED <<now, modVars, statVars>>

\* dequeue(): self._queue.get(block=True) waits for an item
Dequeue_nonblocking ==
    IF queue # <<>>
    THEN DequeueTake
    ELSE /\ tpc = "fetch"
         /\ tpc' = "error"
         /\ mainErr' = "Empty"
         /\ UNCHANGED <<enum_count, i, batch, iterDone>>
         /\ UNCHANGED <<cfgVars, queueVars, coreVars, poolVars, histVars, auxVars>>
Dequeue ==
    /\ Queue_get_ready(queue)
    /\ DequeueTake

\* self.learn(batch): the base class raises NotImplementedError, an
\* overriding learn returns or raises
LearnArg_stale(b) == IF learned = <<>> THEN b ELSE learned[Len(learned)]
LearnArg(b) == b

LearnReturn ==
    /\ tpc = "learn"
    /\ ~Raises("learn")
    /\ learned' = Log(learned, LearnArg(batch))
    /\ tpc' = "publish"
    /\ Timed("learn")
    /\ UNCHANGED <<enum_count, i, batch, iterDone, mainErr>>
    /\ UNCHANGED <<enqCalls, enqDone, deqd, publishCalls>>
    /\ UNCHANGED <<cfgVars, queueVars, coreVars, poolVars>>
    /\ UNCHANGED <<start, now, modVars, statVars>>

LearnRaise_swallowed ==
    /\ tpc = "learn"
    /\ learned' = Log(learned, LearnArg(batch))
    /\ tpc' = "publish"
    /\ mainErr' = IF Raises("learn") THEN "NotImplementedError"
                                      ELSE "LearnError"
    /\ UNCHANGED <<enum_count, i, batch, iterDone>>
    /\ UNCHANGED <<enqCalls, enqDone, deqd, publishCalls>>
    /\ UNCHANGED <<cfgVars, queueVars, coreVars, poolVars, auxVars>>
LearnRaise ==
    /\ tpc = "learn"
    /\ learned' = Log(learned, LearnArg(batch))
    /\ tpc' = "error"
    /\ mainErr' = IF Raises("learn") THEN "NotImplementedError"
                                      ELSE "LearnError"
    /\ UNCHANGED <<enum_count, i, batch, iterDone>>
    /\ UNCHANGED <<enqCalls, enqDone, deqd, publishCalls>>
    /\ UNCHANGED <<cfgVars, queueVars, coreVars, poolVars, auxVars>>

\* fetch_iterator: while True, the for loop of main_loop is never exhausted
LoopContinues_twice == enum_count < 2
LoopContinues == TRUE

\* publish_parameter(i, message='batch '+str(i))
PublishCall ==
    [iteration |-> i, message |-> Message(i), publisher |-> ps_publisher,
     module_dict |-> ps_module_dict]

PublishReturn ==
    /\ tpc = "publish"
    /\ ps_publisher # NoObject
    /\ publishCalls' = Log(publishCalls, PublishCall)
    /\ tpc' = IF LoopContinues THEN "fetch" ELSE "done"
    /\ iterDone' = Count(iterDone)
    /\ Timed("iteration")
    /\ start' = [start EXCEPT !["fetch"] = now]
    /\ UNCHANGED <<enum_count, i, batch, mainErr>>
    /\ UNCHANGED <<enqCalls, enqDone, deqd, learned>>
    /\ UNCHANGED <<cfgVars, queueVars, coreVars, poolVars>>
    /\ UNCHANGED <<now, modVars, statVars>>

PublishRaise ==
    /\ tpc = "publish"
    /\ IF ps_publisher = NoObject
       THEN /\ mainErr' = "AttributeError"
            /\ UNCHANGED publishCalls
       ELSE /\ mainErr' = "PublishError"
            /\ publishCalls' = Log(publishCalls, PublishCall)
    /\ tpc' = "error"
    /\ UNCHANGED <<enum_count, i, batch, iterDone>>
    /\ UNCHANGED <<enqCalls, enqDone, deqd, learned>>
    /\ UNCHANGED <<cfgVars, queueVars, coreVars, poolVars, auxVars>>

Next ==
    \/ Initialize
    \/ StartEnqueueThread
    \/ \E p \in Threads, k \in 1..MaxResp : Receive(p, k)
    \/ Stall
    \/ \E p \in Threads : EnqueueReturn(p)
    \/ MainLoopStart
    \/ Dequeue
    \/ LearnReturn
    \/ LearnRaise
    \/ PublishReturn
    \/ PublishRaise

Spec == Init /\ [][Next]_vars

\* ------------------------------------------- the abstract seams, called directly
\* learner.learn(batch) / learner.module_dict() / learner.save(path)
CallSeam(s) ==
    /\ Len(calls) < MaxCalls
    /\ calls' = Append(calls, Call(s, IF Raises(s) THEN "NotImplementedError"
                                                   ELSE "ok"))
    /\ UNCHANGED <<ps_publisher, created>>
    /\ UNCHANGED <<cfgVars, queueVars, poolVars, trainVars, histVars, auxVars>>

InitSeams == Constructed(AllSeams)

NextSeams ==
    \/ Initialize
    \/ StartEnqueueThread
    \/ \E s \in AllSeams : CallSeam(s)

SpecSeams == InitSeams /\ [][NextSeams]_vars

\* ------------------------------------- the timed loop of a single producer
\* time passes; the clock counts from the call of main_loop
Tick ==
    /\ tpc # "idle"
    /\ now < MaxTime
    /\ now' = now + 1
    /\ UNCHANGED <<timer, start, durs, modVars, statVars>>
    /\ UNCHANGED <<cfgVars, queueVars, coreVars, poolVars, trainVars, histVars>>

\* the overriding learn replaces the learner's modules: module_dict()
\* returns another mapping from now on
Rebind ==
    /\ tpc = "learn"
    /\ md_cur <= MaxRebinds
    /\ md_cur' = md_cur + 1
    /\ UNCHANGED <<ps_module_dict, timeVars, statVars>>
    /\ UNCHANGED <<cfgVars, queueVars, coreVars, poolVars, trainVars, histVars>>

\* one producer, capacity 1, a learner that overrides its seams
InitLoop ==
    /\ Constructed(Seams)
    /\ max_size = 1
    /\ numProducers = 1
    /\ implemented = Seams

\* the metaclass of LearnerCore runs _initialize once, after __init__
InitializeOnce ==
    /\ calls = <<>>
    /\ Initialize

NextLoop ==
    \/ InitializeOnce
    \/ Receive(1, 1)
    \/ EnqueueReturn(1)
    \/ MainLoopStart
    \/ Dequeue
    \/ LearnReturn
    \/ PublishReturn
    \/ Tick

SpecLoop == InitLoop /\ [][NextLoop]_vars

\* ------------------------------------- a learner that replaces its modules
NextPublish ==
    \/ Initialize
    \/ \E k \in 1..MaxResp : Receive(1, k)
    \/ EnqueueReturn(1)
    \/ MainLoopStart
    \/ Dequeue
    \/ LearnReturn
    \/ PublishReturn
    \/ Rebind

SpecPublish == InitLoop /\ [][NextPublish]_vars

\* ------------------------------------------------ Learner.update_tensorplex
\* exact fractions n / d with d > 0 stand for the floats of the code
RatAdd(a, k) == Rat(a.n + k * a.d, a.d)
RatDiv(a, b) == Rat(a.n * b.d, a.d * b.n)
RatMul(a, k) == Rat(a.n * k, a.d)
RatLeq(a, b) == a.n * b.d <= b.n * a.d
RatEq(a, b) == a.n * b.d = b.n * a.d
RatMin_first(a, b) == a
RatMin(a, b) == IF RatLeq(a, b) THEN a ELSE b

\* min(x_time / iter_time * 100, 100)
Percent(x_time, iter_time) ==
    RatMin(RatMul(RatDiv(x_time, iter_time), 100), Rat(100, 1))

\* the tags update_tensorplex writes into tag_value_dict
UpdateTensorplex ==
    /\ ~reported
    /\ LET learn_time == RatAdd(Avg(timer["learn"]), Eps)
           fetch_time == RatAdd(Avg(timer["fetch"]), Eps)
           iter_time == RatAdd(Avg(timer["iteration"]), Eps)
       IN  tags' = [n \in TagNames |->
                       CASE n = "learn_time" -> learn_time
                         [] n = "fetch_time" -> fetch_time
                         [] n = "iter_time" -> iter_time
                         [] n = "compute_bound_percent" ->
                                Percent(learn_time, iter_time)
                         [] n = "io_bound_percent" ->
                                Percent(fetch_time, iter_time)]
    /\ reported' = TRUE
    /\ UNCHANGED <<timeVars, modVars>>
    /\ UNCHANGED <<cfgVars, queueVars, coreVars, poolVars, trainVars, histVars>>

\* the timers a learner may hold when update_tensorplex is called
TimerInputs ==
    {t \in [count : 0..MaxCount, total : 0..MaxTotal] :
        t.count = 0 => t.total = 0}

InitStats ==
    /\ \E t \in [Timers -> TimerInputs] : ConstructedWith(Seams, t, FALSE)
    /\ max_size = 1
    /\ numProducers = 1
    /\ implemented = Seams

NextStats == UpdateTensorplex

SpecStats == InitStats /\ [][NextStats]_vars

\* ------------------------------------ the pipeline fed by an endless sampler
\* an initialized learner whose learn and publish always return, a sampler
\* that answers every request
InitLive ==
    /\ ConstructedWith(Seams, [n \in Timers |-> TimeRecorder_init], TRUE)
    /\ implemented = Seams

\* the steps of worker thread p and of the training thread
Producer(p) ==
    \/ \E k \in 1..MaxResp : Receive(p, k)
    \/ EnqueueReturn(p)

Trainer ==
    \/ InitializeOnce
    \/ MainLoopStart
    \/ Dequeue
    \/ LearnReturn
    \/ PublishReturn

NextLive ==
    \/ \E p \in Threads : Producer(p)
    \/ Trainer

\* every thread that can keep running gets to run
SpecLive ==
    /\ InitLive
    /\ [][NextLive]_vars
    /\ WF_vars(Trainer)
    /\ \A p \in Threads : WF_vars(Producer(p))

\* ------------------------------------------------------------ properties
IsPrefix(s, t) == Len(s) <= Len(t) /\ \A k \in 1..Len(s) : s[k] = t[k]
NoRepeats(s) == \A j, k \in 1..Len(s) : j # k => s[j] # s[k]

\* C1: on a queue built with max_size > 0, whatever the interleaving of the
\* producers' enqueues and the consumer's dequeues, the queue length stays
\* within [0, max_size].
C1_LengthWithinCapacity ==
    max_size > 0 =>
        /\ PrefetchBatchQueue_len(queue) >= 0
        /\ PrefetchBatchQueue_len(queue) <= max_size

\* the queue is full again after a dequeue, with two producers, one waiting
C1_Witness ==
    /\ max_size > 0
    /\ numProducers = 2
    /\ PrefetchBatchQueue_len(queue) = max_size
    /\ deqd # <<>>
    /\ \E p \in Threads : ppc[p] = "put"

\* C2: with one producer and one consumer the items dequeue() returns are a
\* prefix of the items passed to enqueue, in the same order, none repeated
\* or skipped.
C2_FifoSingleProducer ==
    numProducers = 1 => IsPrefix(deqd, enqCalls) /\ NoRepeats(deqd)

\* one producer, all the items were dequeued
C2_Witness ==
    /\ numProducers = 1
    /\ Len(deqd) = MaxItems
    /\ max_size = 1

\* C3: an enqueue attempted on a full queue neither completes, fails nor
\* drops its item while the queue is full, and the queue leaves the full
\* state only by a dequeue; with capacity 2 and no dequeue so far, a single
\* producer enqueuing A, B, C has completed A and B and waits with C, and
\* the first dequeue returns A.
C3_Blocked(p) == ppc[p] = "put" /\ max_size > 0 /\ Len(queue) = max_size

C3_Scenario ==
    /\ (numProducers = 1 /\ max_size = 2 /\ Len(enqCalls) = 3 /\ deqd = <<>>) =>
           /\ queue = <<enqCalls[1], enqCalls[2]>>
           /\ enqDone = <<enqCalls[1], enqCalls[2]>>
           /\ ppc[1] = "put"
           /\ pending[1] = enqCalls[3]
    /\ (numProducers = 1 /\ deqd # <<>>) => deqd[1] = enqCalls[1]

C3_FullQueueBlocksEnqueue ==
    /\ []C3_Scenario
    /\ [][\A p \in Threads : C3_Blocked(p) =>
             /\ ppc'[p] = "put"
             /\ pending'[p] = pending[p]
             /\ enqDone' = enqDone
             /\ (Len(queue') < max_size => deqd' = Append(deqd, Head(queue)))]_vars

\* capacity 2: C completed after the dequeue that returned A
C3_Witness ==
    /\ numProducers = 1
    /\ max_size = 2
    /\ enqDone = <<1, 2, 3>>
    /\ deqd = <<1>>
    /\ queue = <<2, 3>>

\* C4: an _initialize call made after a successful one fails with an error,
\* and over any sequence of _initialize / start_enqueue_thread calls the
\* client pool's start() runs at most once.
C4_SecondInitializeFails ==
    /\ clientStarts <= 1
    /\ \A j, k \in 1..Len(calls) :
           (j < k /\ calls[j] = Call("_initialize", "ok")
                  /\ calls[k].op = "_initialize")
               => calls[k].result = "RuntimeError"
    /\ \A j, k \in 1..Len(calls) :
           (j < k /\ calls[j].result = "ok") => calls[k].result # "ok"

\* _initialize succeeded, then was called again
C4_Witness ==
    /\ Len(calls) >= 2
    /\ calls[1] = Call("_initialize", "ok")
    /\ calls[2] = Call("_initialize", "RuntimeError")
    /\ clientStarts = 1

\* C5: after N completed iterations publish has been called exactly N
\* times, and the k-th call (k = 0..N-1) carries iteration index k.
C5_PublishIndices ==
    /\ mainErr # "PublishError" => Len(publishCalls) = iterDone
    /\ mainErr = "PublishError" => Len(publishCalls) = iterDone + 1
    /\ \A k \in 1..Len(publishCalls) : publishCalls[k].iteration = k - 1

\* every item went through a complete iteration
C5_Witness ==
    /\ iterDone = MaxItems
    /\ Len(publishCalls) = MaxItems
    /\ tpc = "fetch"

\* C6: every batch the main loop dequeues is passed to learn exactly once,
\* and the batches passed to learn are the batches dequeued, in that order,
\* which is the order in which the enqueues completed.
C6_LearnedAreDequeued ==
    /\ IsPrefix(learned, deqd)
    /\ Len(deqd) = Len(learned) + (IF tpc = "learn" THEN 1 ELSE 0)
    /\ NoRepeats(learned)
    /\ IsPrefix(deqd, enqDone)

\* two producers whose enqueues completed out of call order, all learned
C6_Witness ==
    /\ numProducers = 2
    /\ Len(learned) = MaxItems
    /\ enqDone # enqCalls
    /\ tpc = "fetch"

\* C7: dequeue() on an empty queue neither returns nor raises, and no
\* learn or publish happens, until an enqueue completes; once the sampler
\* has stalled with nothing in flight and the queue is empty, the training
\* thread stays blocked in dequeue.
C7_Waiting == tpc = "fetch" /\ queue = <<>>

C7_Starved ==
    /\ C7_Waiting
    /\ stalled
    /\ \A p \in Threads : ppc[p] = "idle" /\ resp[p] = <<>>

C7_EmptyQueueBlocksDequeue ==
    [][/\ C7_Waiting => /\ tpc' = "fetch"
                        /\ mainErr' = mainErr
                        /\ UNCHANGED <<deqd, learned, publishCalls, iterDone>>
       /\ C7_Starved => C7_Starved']_vars

\* the sampler stalled after one full iteration; the trainer waits
C7_Witness ==
    /\ C7_Starved
    /\ iterDone >= 1
    /\ delivered < MaxItems

\* C8 (as claimed): the queue and the publisher are each created once and
\* no later operation, a repeated failing initialization included, creates
\* them again; the fetch activity is started at most once.
C8_CreatedOnce ==
    /\ created.q = 1
    /\ created.publisher <= 1
    /\ clientStarts <= 1

\* C9: before any initialization step nothing is started: the client pool
\* is not started and no publisher exists; and while the pool has not been
\* started no item has been received or enqueued and the queue is empty.
C9_ConstructedNothingStarted ==
    /\ calls = <<>> =>
           /\ clientStarts = 0
           /\ enqueue_thread = None
           /\ ps_publisher = NoObject
    /\ clientStarts = 0 =>
           /\ queue = <<>>
           /\ delivered = 0
           /\ enqCalls = <<>> /\ enqDone = <<>> /\ deqd = <<>>
           /\ \A p \in Threads : ppc[p] = "idle" /\ resp[p] = <<>>

\* Constructed state with the training thread already waiting in dequeue
C9_Witness ==
    /\ calls = <<>>
    /\ tpc = "fetch"
    /\ queue = <<>>

\* C10: every completed _enqueue call adds exactly one queue entry whatever
\* batch_size is, so the items of the responses handled so far are the
\* entries the queue has received, one entry each: a response of k items
\* adds exactly k entries.
C10_InFlight(p) == Len(resp[p]) + (IF ppc[p] = "put" THEN 1 ELSE 0)

RECURSIVE C10_SumInFlight(_)
C10_SumInFlight(n) == IF n = 0 THEN 0 ELSE C10_InFlight(n) + C10_SumInFlight(n - 1)

C10_OneEntryPerItem ==
    /\ Len(queue) + Len(deqd) = Len(enqDone)
    /\ Len(enqDone) + C10_SumInFlight(MaxProducers) = delivered
    /\ NoRepeats(enqDone)

\* the first response had MaxResp items, fewer than batch_size, and was
\* handled completely: exactly MaxResp entries
C10_Witness ==
    /\ batch_size = MaxResp + 1
    /\ delivered = MaxResp
    /\ enqCalls = [n \in 1..MaxResp |-> n]
    /\ Len(queue) + Len(deqd) = MaxResp
    /\ \A p \in Threads : ppc[p] = "idle" /\ resp[p] = <<>>

\* C11: learn, module_dict or save called on a learner that does not
\* override it ends in NotImplementedError; _initialize on a learner without
\* module_dict ends in that error, creates no publisher and does not start
\* the client pool.
C11_Started == \E k \in 1..Len(calls) : calls[k] = Call("start_enqueue_thread", "ok")

C11_NotImplemented ==
    /\ \A k \in 1..Len(calls) :
           (calls[k].op \in AllSeams /\ calls[k].op \notin implemented)
               => calls[k].result = "NotImplementedError"
    /\ "module_dict" \notin implemented =>
           /\ \A k \in 1..Len(calls) :
                  calls[k].op = "_initialize" => calls[k].result = "NotImplementedError"
           /\ ps_publisher = NoObject
           /\ clientStarts = (IF C11_Started THEN 1 ELSE 0)

\* save and then _initialize were called on a learner that overrides only learn
C11_Witness ==
    /\ implemented = {"learn"}
    /\ calls = <<Call("save", "NotImplementedError"),
                 Call("_initialize", "NotImplementedError")>>
    /\ clientStarts = 0

\* C15: in iteration i the steps are dequeue(batch i), learn(batch i),
\* publish(i, message 'batch i'): publish(i) is called only after learn of
\* the i-th dequeued batch has returned, and batch i+1 is dequeued only
\* after publish(i) has returned.
C15_IterationOrder ==
    /\ \A k \in 1..Len(publishCalls) :
           /\ publishCalls[k].iteration = k - 1
           /\ publishCalls[k].message = <<"batch", k - 1>>
    /\ tpc = "fetch" =>
           /\ Len(deqd) = iterDone /\ Len(learned) = iterDone
           /\ Len(publishCalls) = iterDone
    /\ tpc = "learn" =>
           /\ Len(deqd) = iterDone + 1 /\ Len(learned) = iterDone
           /\ Len(publishCalls) = iterDone
           /\ i = iterDone /\ batch = deqd[iterDone + 1]
    /\ tpc = "publish" =>
           /\ Len(deqd) = iterDone + 1 /\ Len(learned) = iterDone + 1
           /\ learned[iterDone + 1] = deqd[iterDone + 1]
           /\ Len(publishCalls) = iterDone
           /\ i = iterDone

\* the second batch has been learned and publish(1) is about to be called
C15_Witness ==
    /\ tpc = "publish"
    /\ iterDone = 1
    /\ publishCalls[1].message = <<"batch", 0>>
    /\ learned = <<deqd[1], deqd[2]>>

\* C17: main_loop has no finished state: while no error has left it, it is
\* fetching, learning or publishing whatever the number of iterations done,
\* it takes the next batch whenever one is queued, and it stops only with
\* an error.
C17_NoInternalTermination ==
    /\ tpc # "done"
    /\ tpc = "error" <=> mainErr # None
    /\ (tpc # "idle" /\ mainErr = None) => tpc \in {"fetch", "learn", "publish"}
    /\ (tpc = "fetch" /\ queue # <<>>) => ENABLED Dequeue

\* all the items went through the loop, which waits for one more
C17_Witness ==
    /\ iterDone = MaxItems
    /\ delivered = MaxItems
    /\ mainErr = None
    /\ tpc = "fetch"
    /\ queue = <<>>

\* C18: with P worker threads and capacity C, the items passed to the
\* handler and not yet dequeued never exceed C + P.
C18_HeldItems == Len(enqCalls) - Len(deqd)

C18_BackpressureBound ==
    /\ C18_HeldItems <= max_size + numProducers
    /\ C18_HeldItems = Len(queue) + Cardinality({p \in Threads : ppc[p] = "put"})

\* the bound is met: a full queue and every producer waiting in enqueue
C18_Witness ==
    /\ numProducers = 2
    /\ C18_HeldItems = max_size + numProducers
    /\ Len(queue) = max_size
    /\ \A p \in Threads : ppc[p] = "put"

\* C19: when learn raises on the i-th dequeued batch the main loop stops
\* with that error: exactly the publishes 0..i-1 were made and none follows,
\* the failed batch is not put back, and the failure leaves the queue as
\* it is.
C19_LearnErrors == {"LearnError", "NotImplementedError"}

C19_Stopped ==
    mainErr \in C19_LearnErrors =>
        /\ tpc = "error"
        /\ Len(publishCalls) = i
        /\ \A k \in 1..Len(publishCalls) : publishCalls[k].iteration = k - 1
        /\ Len(deqd) = i + 1 /\ deqd[i + 1] = batch
        /\ \A k \in 1..Len(queue) : queue[k] # batch

C19_LearnFailureStops ==
    /\ []C19_Stopped
    /\ [][/\ (mainErr = None /\ mainErr' \in C19_LearnErrors) =>
                 /\ queue' = queue
                 /\ publishCalls' = publishCalls
          /\ tpc = "error" =>
                 /\ tpc' = "error"
                 /\ UNCHANGED <<mainErr, publishCalls, deqd, learned>>
                 /\ IsPrefix(queue, queue')]_vars

\* learn raised on the second batch while another batch was queued
C19_Witness ==
    /\ mainErr = "LearnError"
    /\ i = 1
    /\ Len(publishCalls) = 1
    /\ queue # <<>>

\* C13 (as claimed): the mapping a publish call sends is the one
\* module_dict() returns at the time of the call, also when module_dict()
\* returns another mapping than it did at initialization.
C13_PublishesCurrentMapping ==
    tpc = "publish" => ps_module_dict = md_cur

RECURSIVE SumSeq(_)
SumSeq(q) == IF q = <<>> THEN 0 ELSE Head(q) + SumSeq(Tail(q))

\* C14: a timer holds one count and one duration per execution of its
\* phase and never resets: after d1..dn its average is (d1 + ... + dn) / n;
\* the durations 1, 2, 3 give the average 2.
C14_RunningMean ==
    /\ \A n \in Timers :
           /\ timer[n].count = Len(durs[n])
           /\ timer[n].total = SumSeq(durs[n])
           /\ Len(durs[n]) > 0 =>
                  Avg(timer[n]).n * Len(durs[n]) = SumSeq(durs[n]) * Avg(timer[n]).d
    /\ Len(durs["fetch"]) = Len(deqd)
    /\ Len(durs["learn"]) = Len(learned)
    /\ Len(durs["iteration"]) = iterDone
    /\ durs["learn"] = <<1, 2, 3>> => Avg(timer["learn"]).n = 2 * Avg(timer["learn"]).d

\* three iterations whose learn steps took 1, 2 and 3
C14_Witness ==
    /\ durs["learn"] = <<1, 2, 3>>
    /\ timer["learn"] = [count |-> 3, total |-> 6]
    /\ iterDone = 3

\* C16 (as claimed): the duration recorded under `iteration` covers the
\* dequeue, the learn and the publish of that iteration, so it is at least
\* the fetch duration plus the learn duration of the same iteration.
C16_IterationCoversFetch ==
    \A k \in 1..Len(durs["iteration"]) :
        durs["iteration"][k] >= durs["fetch"][k] + durs["learn"][k]

\* the value update_tensorplex works with: the timer's mean plus epsilon
C12_Time(n) ==
    IF timer[n].count = 0
    THEN Rat(Eps, 1)
    ELSE Rat(timer[n].total + Eps * timer[n].count, timer[n].count)

C12_PercentOf(tag, n) ==
    LET x == C12_Time(n)
        it == C12_Time("iteration")
    IN  /\ RatLeq(Rat(0, 1), tags[tag])
        /\ RatLeq(tags[tag], Rat(100, 1))
        /\ IF RatLeq(x, it)
           THEN tags[tag].n * x.d * it.n = 100 * x.n * it.d * tags[tag].d
           ELSE RatEq(tags[tag], Rat(100, 1))

\* C12: for all non-negative timer averages, update_tensorplex reports
\* compute_bound_percent and io_bound_percent within [0, 100], each equal to
\* min((avg + eps) / (iter_avg + eps) * 100, 100), each computed from its own
\* timer and the iteration timer only.
C12_PercentsClamped ==
    reported =>
        /\ C12_PercentOf("compute_bound_percent", "learn")
        /\ C12_PercentOf("io_bound_percent", "fetch")
        /\ \A n \in TagNames : tags[n].d > 0

\* learn and fetch averages above the iteration average: both percents are
\* clamped to 100, so they sum to 200
C12_Witness ==
    /\ reported
    /\ timer["learn"].total > 0 /\ timer["fetch"].total > 0
    /\ timer["iteration"] = [count |-> MaxCount, total |-> 1]
    /\ RatEq(tags["compute_bound_percent"], Rat(100, 1))
    /\ RatEq(tags["io_bound_percent"], Rat(100, 1))
    /\ ~RatLeq(Avg(timer["learn"]), Avg(timer["iteration"]))
    /\ ~RatLeq(Avg(timer["fetch"]), Avg(timer["iteration"]))

C20_Attempted == \E p \in Threads : ppc[p] = "put" /\ pending[p] = Tracked
C20_Enqueued == \E k \in 1..Len(queue) : queue[k] = Tracked
C20_Learned == tpc = "learn" /\ LearnArg(batch) = Tracked
C20_Published(n) == tpc = "fetch" /\ PublishCall.iteration = n

\* C20 (as claimed): under weak fairness of every thread, each item whose
\* enqueue was attempted is eventually enqueued and eventually passed to
\* learn, and publish(i) eventually happens for every i.
C20_AttemptedIsLearned ==
    /\ C20_Attempted ~> C20_Enqueued
    /\ C20_Attempted ~> C20_Learned
    /\ \A n \in 0..(Ring - 1) : []<>C20_Published(n)

\* C20 (amended): under weak fairness of every thread the training thread
\* never stops: publish(i) eventually happens for every i and each item
\* that was enqueued is eventually passed to learn; with a single worker
\* thread each item whose enqueue was attempted is eventually enqueued.
C20_EnqueuedIsLearned ==
    /\ (numProducers = 1 /\ C20_Attempted) ~> C20_Enqueued
    /\ C20_Enqueued ~> C20_Learned
    /\ \A n \in 0..(Ring - 1) : []<>C20_Published(n)

\* the followed item is being learned in the last iteration before the
\* counters wrap, while all of two or more worker threads wait at a full queue
C20_Witness ==
    /\ endless
    /\ C20_Learned
    /\ numProducers > 1
    /\ \A p \in 1..numProducers : ppc[p] = "put"
    /\ Len(queue) = max_size
    /\ i = Ring - 1 /\ enum_count = 0

====
